---- MODULE Spec2Model ----
(***************************************************************************)
(* Record lifecycle workflow of the demo frontend (demo-frontend/app.js).  *)
(* The state is the DOM state the handlers of app.js read and write: the   *)
(* current page, the status badge, the modal overlays, the toast           *)
(* container, the required textareas of the workflow modals, the activity  *)
(* log and the pending redirect timer, and, for the other pages, the       *)
(* header dropdowns, the tabs, the login and record forms and the          *)
(* indicators they show.  The transition table the navigation guide        *)
(* documents is kept beside the handlers, so that what the handlers do     *)
(* can be compared with what the guide says they do.                       *)
(***************************************************************************)
EXTENDS Integers, Sequences, FiniteSets, TLC

VARIABLES page, status, badgeClass, role, fields, modals, toasts,
          activityLog, redirect,
          dropdowns, activeTabs, activeContents, form, shown

\* the state of the elements outside the workflow: the dropdowns that have
\* class visible, the tabs with class tab--active, the tab contents with
\* class active, the values of the login and record form inputs, and the
\* error and indicator elements that are displayed
uiVars == <<dropdowns, activeTabs, activeContents, form, shown>>

vars == <<page, status, badgeClass, role, fields, modals, toasts,
          activityLog, redirect,
          dropdowns, activeTabs, activeContents, form, shown>>

----------------------------------------------------------------------------
(* Bounds of the model *)

\* most toasts shown in the toast container at once
MaxToasts == 2

\* most modal overlays visible at once
MaxOpenModals == 1

----------------------------------------------------------------------------
(* Vocabulary of the pages *)

RecordDetailPage == "record-detail.html"

RecordsPage == "records.html"

LoginPage == "login.html"

DashboardPage == "dashboard.html"

RecordFormPage == "record-form.html"

SettingsPage == "settings.html"

AdminPage == "admin.html"

\* the pages that carry the header, the sidebar and the toast container
AuthenticatedPages == {DashboardPage, RecordsPage, RecordDetailPage,
                       RecordFormPage, SettingsPage, AdminPage}

Pages == AuthenticatedPages \cup {LoginPage}

\* the status texts of the status badge
Statuses == {"Draft", "Pending Review", "Approved", "Rejected", "Locked", "Archived"}

\* text and class of a page that has no status-badge element
NoBadge == "(no status-badge)"

Roles == {"Viewer", "Editor", "Reviewer", "Admin"}

\* the modal overlays of the record detail page
Modals == {"modal-submit-review", "modal-approve", "modal-reject",
           "modal-lock", "modal-unlock", "modal-confirm-delete"}

\* the required textareas of the Reject and Unlock modals
RequiredFields == {"input-rejection-reason", "input-unlock-reason"}

\* texts a user may leave in a textarea: nothing, one blank, a word
FieldValues == {<<>>, <<" ">>, <<"o", "k">>}

\* a text with nothing but blanks in it (what trim() leaves empty)
Blank(s) == \A i \in 1..Len(s) : s[i] = " "

ToastTypes == {"success", "error", "warning"}

NoRedirect == "(none)"

\* document.getElementById('status-badge') finds the badge
HasBadge == page = RecordDetailPage

\* document.getElementById('toast-container') finds the container
HasToastContainer == page \in AuthenticatedPages

\* the modal overlays the current document holds
PageModals == IF page = RecordDetailPage THEN Modals ELSE {}

\* the dropdowns of the header and of the record detail page
Dropdowns == {"user-dropdown", "notifications-panel", "actions-dropdown"}

\* the dropdowns the current document holds
PageDropdowns ==
    IF page = RecordDetailPage THEN Dropdowns
    ELSE IF page \in AuthenticatedPages THEN {"user-dropdown", "notifications-panel"}
    ELSE {}

\* the wrapper element around each dropdown and its trigger button
Wrapper ==
    [d \in Dropdowns |->
        CASE d = "user-dropdown" -> ".user-menu-wrapper"
          [] d = "notifications-panel" -> ".notifications-wrapper"
          [] d = "actions-dropdown" -> ".actions-menu-wrapper"]

\* where a click may land: the three trigger buttons, a button inside the
\* notifications panel, and anywhere else in the page
ClickTargets == {"user-avatar-menu", "btn-notifications", "btn-actions-menu",
                 "btn-mark-all-read", "page-body"}

NoWrapper == "(null)"

\* e.target.closest(...): the dropdown wrapper the target lies in
Closest ==
    [t \in ClickTargets \cup {"modal-overlay"} |->
        CASE t = "user-avatar-menu" -> ".user-menu-wrapper"
          [] t = "btn-notifications" -> ".notifications-wrapper"
          [] t = "btn-mark-all-read" -> ".notifications-wrapper"
          [] t = "btn-actions-menu" -> ".actions-menu-wrapper"
          [] OTHER -> NoWrapper]

\* the click targets the current document holds
PageTargets ==
    IF page = RecordDetailPage THEN ClickTargets
    ELSE IF page \in AuthenticatedPages THEN ClickTargets \ {"btn-actions-menu"}
    ELSE {"page-body"}

\* the data-tab names of the Settings and Admin tab bars
TabNames == {"profile", "security", "users", "roles"}

\* the tabs the current document holds
PageTabs ==
    IF page = SettingsPage THEN {"profile", "security"}
    ELSE IF page = AdminPage THEN {"users", "roles"}
    ELSE {}

\* the id of the tab content of each tab: tab-<name>
ContentId ==
    [n \in TabNames |->
        CASE n = "profile" -> "tab-profile"
          [] n = "security" -> "tab-security"
          [] n = "users" -> "tab-users"
          [] n = "roles" -> "tab-roles"]

\* switchTab called without a groupId
NoGroup == "(no groupId)"

GroupIds == {NoGroup, "settings-tabs", "admin-tabs"}

\* the tab group element the current document holds
PageGroup ==
    IF page = SettingsPage THEN "settings-tabs"
    ELSE IF page = AdminPage THEN "admin-tabs"
    ELSE "(no tab group)"

\* the tab that is active when page p is loaded
DefaultTabs(p) ==
    IF p = SettingsPage THEN {"profile"}
    ELSE IF p = AdminPage THEN {"users"}
    ELSE {}

\* the inputs of the login form and the required inputs of the record form
Inputs == {"username", "password", "title", "type"}

\* texts a user may enter into each input
InputValues ==
    [i \in Inputs |->
        CASE i = "username" -> {"", "admin", "guest"}
          [] i = "password" -> {"", "admin123", "letmein"}
          [] i = "title" -> FieldValues
          [] i = "type" -> {"", "Policy"}]

\* the inputs the current document holds
PageInputs ==
    IF page = LoginPage THEN {"username", "password"}
    ELSE IF page = RecordFormPage THEN {"title", "type"}
    ELSE {}

\* the form inputs of a page as it is loaded
EmptyForm == [username |-> "", password |-> "", title |-> <<>>, type |-> ""]

\* the field errors of the record form (class form-error)
FormErrors == {"field-error-title", "field-error-type"}

\* the elements a handler may display or hide
Indicators == FormErrors \cup {"form-error-summary", "alert-login-error",
                               "record-lock-icon"}

\* the status badge of page p as it is loaded
LoadedStatus(p) == IF p = RecordDetailPage THEN "Draft" ELSE NoBadge

LoadedBadgeClass(p) == IF p = RecordDetailPage THEN "badge--draft" ELSE NoBadge

----------------------------------------------------------------------------
(* Initial state: the record detail page as it is loaded *)

Init ==
    /\ page = RecordDetailPage
    /\ status = "Draft"
    /\ badgeClass = "badge--draft"
    /\ role \in Roles
    /\ fields = [f \in RequiredFields |-> <<>>]
    /\ modals = {}
    /\ toasts = <<>>
    /\ activityLog = <<>>
    /\ redirect = NoRedirect
    /\ dropdowns = {}
    /\ activeTabs = DefaultTabs(RecordDetailPage)
    /\ activeContents = {ContentId[n] : n \in DefaultTabs(RecordDetailPage)}
    /\ form = EmptyForm
    /\ shown = {}

----------------------------------------------------------------------------
(* Dropdowns *)

\* classList.toggle('visible') on dropdown d, if the document holds it
toggle(d, open) ==
    IF d \notin PageDropdowns THEN open
    ELSE IF d \in open THEN open \ {d}
    ELSE open \cup {d}

toggleUserMenu(open) == toggle("user-dropdown", open)

toggleNotifications(open) == toggle("notifications-panel", open)

toggleActionsMenu(open) == toggle("actions-dropdown", open)

\* the onclick handler of the element a click lands on
onclick(target, open) ==
    CASE target = "user-avatar-menu" -> toggleUserMenu(open)
      [] target = "btn-notifications" -> toggleNotifications(open)
      [] target = "btn-actions-menu" -> toggleActionsMenu(open)
      [] OTHER -> open

\* the click listener with the branch of the actions menu left out
closeOutside_noActions(target, open) ==
    {d \in open : d = "actions-dropdown" \/ Closest[target] = Wrapper[d]}

\* click listener of the document: a dropdown whose wrapper does not hold
\* the target of the click loses class visible
closeOutside(target, open) ==
    {d \in open : Closest[target] = Wrapper[d]}

\* a click whose event never reaches the click listener of the document
click_inline(target) ==
    /\ target \in PageTargets
    /\ dropdowns' = onclick(target, dropdowns)
    /\ UNCHANGED <<page, status, badgeClass, role, fields, modals, toasts, activityLog, redirect>>
    /\ UNCHANGED <<activeTabs, activeContents, form, shown>>

\* a click on target: the onclick handler of the target runs, then the
\* event reaches the click listener of the document
click(target) ==
    /\ target \in PageTargets
    /\ dropdowns' = closeOutside(target, onclick(target, dropdowns))
    /\ UNCHANGED <<page, status, badgeClass, role, fields, modals, toasts, activityLog, redirect>>
    /\ UNCHANGED <<activeTabs, activeContents, form, shown>>

----------------------------------------------------------------------------
(* Modal management *)

openModal(modalId) ==
    /\ modalId \in PageModals
    /\ modalId \notin modals
    /\ Cardinality(modals) < MaxOpenModals
    /\ modals' = modals \cup {modalId}
    /\ UNCHANGED <<page, status, badgeClass, role, fields, toasts, activityLog, redirect>>
    /\ UNCHANGED uiVars

closeModal(modalId) ==
    /\ modalId \in modals
    /\ modals' = modals \ {modalId}
    /\ UNCHANGED <<page, status, badgeClass, role, fields, toasts, activityLog, redirect>>
    /\ UNCHANGED uiVars

\* closeAllModals with classList.toggle in the place of classList.remove
closeAllModals_toggled == modals' = PageModals \ modals

closeAllModals == modals' = {}

\* keydown listener: Escape closes every modal
keydownEscape ==
    /\ closeAllModals
    /\ UNCHANGED <<page, status, badgeClass, role, fields, toasts, activityLog, redirect>>
    /\ UNCHANGED uiVars

\* click listeners: a click on a modal overlay hides that overlay, and,
\* the overlay lying in no dropdown wrapper, closes the dropdowns
overlayClick(modalId) ==
    /\ modalId \in modals
    /\ modals' = modals \ {modalId}
    /\ dropdowns' = closeOutside("modal-overlay", dropdowns)
    /\ UNCHANGED <<page, status, badgeClass, role, fields, toasts, activityLog, redirect>>
    /\ UNCHANGED <<activeTabs, activeContents, form, shown>>

----------------------------------------------------------------------------
(* Toasts *)

Toast(type, message) == [type |-> type, message |-> message]

showToast(type, message) ==
    IF ~HasToastContainer
    THEN UNCHANGED toasts
    ELSE toasts' = Append(toasts, Toast(type, message))

RemoveAt(s, i) == [j \in 1..(Len(s) - 1) |-> IF j < i THEN s[j] ELSE s[j + 1]]

\* the timer set only when the container already holds another toast
toastTimer_late ==
    /\ Len(toasts) > 1
    /\ toasts' = Tail(toasts)
    /\ UNCHANGED <<page, status, badgeClass, role, fields, modals, activityLog, redirect>>
    /\ UNCHANGED uiVars

\* setTimeout(() => toast.remove(), 4000): equal delays, the oldest toast first
toastTimer ==
    /\ Len(toasts) > 0
    /\ toasts' = Tail(toasts)
    /\ UNCHANGED <<page, status, badgeClass, role, fields, modals, activityLog, redirect>>
    /\ UNCHANGED uiVars

\* the dismiss button of a toast: this.parentElement.remove()
toastDismiss(i) ==
    /\ i \in 2..Len(toasts)
    /\ toasts' = RemoveAt(toasts, i)
    /\ UNCHANGED <<page, status, badgeClass, role, fields, modals, activityLog, redirect>>
    /\ UNCHANGED uiVars

----------------------------------------------------------------------------
(* The user types into a required textarea of a workflow modal *)

typeField(f, v) ==
    /\ page = RecordDetailPage
    /\ fields[f] # v
    /\ fields' = [fields EXCEPT ![f] = v]
    /\ UNCHANGED <<page, status, badgeClass, role, modals, toasts, activityLog, redirect>>
    /\ UNCHANGED uiVars

----------------------------------------------------------------------------
(* Workflow actions *)

\* updateStatusBadge with its two arguments taken in the wrong order
updateStatusBadge_swapped(text, className) ==
    IF ~HasBadge
    THEN UNCHANGED <<status, badgeClass>>
    ELSE /\ badgeClass' = text
         /\ status' = className

updateStatusBadge(text, className) ==
    IF ~HasBadge
    THEN UNCHANGED <<status, badgeClass>>
    ELSE /\ badgeClass' = className
         /\ status' = text

\* submitForReview emptying the textareas of the workflow modals as well
submitForReview_wipes ==
    /\ closeAllModals
    /\ updateStatusBadge("Pending Review", "badge--pending")
    /\ showToast("success", "Record submitted for review")
    /\ fields' = [f \in RequiredFields |-> <<>>]
    /\ UNCHANGED <<page, role, activityLog, redirect>>
    /\ UNCHANGED uiVars

submitForReview ==
    /\ closeAllModals
    /\ updateStatusBadge("Pending Review", "badge--pending")
    /\ showToast("success", "Record submitted for review")
    /\ UNCHANGED <<page, role, fields, activityLog, redirect>>
    /\ UNCHANGED uiVars

\* approveRecord changing the badge only when no modal was open
approveRecord_whenClosed ==
    /\ closeAllModals
    /\ IF modals = {}
       THEN updateStatusBadge("Approved", "badge--approved")
       ELSE UNCHANGED <<status, badgeClass>>
    /\ showToast("success", "Record approved")
    /\ UNCHANGED <<page, role, fields, activityLog, redirect>>
    /\ UNCHANGED uiVars

approveRecord ==
    /\ closeAllModals
    /\ updateStatusBadge("Approved", "badge--approved")
    /\ showToast("success", "Record approved")
    /\ UNCHANGED <<page, role, fields, activityLog, redirect>>
    /\ UNCHANGED uiVars

\* rejectRecord pasted from approveRecord with the badge left as it was there
rejectRecord_pasted ==
    /\ closeAllModals
    /\ updateStatusBadge("Approved", "badge--approved")
    /\ showToast("success", "Record rejected")
    /\ UNCHANGED <<page, role, fields, activityLog, redirect>>
    /\ UNCHANGED uiVars

rejectRecord ==
    /\ closeAllModals
    /\ updateStatusBadge("Rejected", "badge--rejected")
    /\ showToast("success", "Record rejected")
    /\ UNCHANGED <<page, role, fields, activityLog, redirect>>
    /\ UNCHANGED uiVars

\* lockRecord with the call of closeAllModals left out
lockRecord_open ==
    /\ UNCHANGED modals
    /\ updateStatusBadge("Locked", "badge--locked")
    /\ showToast("success", "Record locked")
    /\ UNCHANGED <<page, role, fields, activityLog, redirect>>
    /\ UNCHANGED uiVars

lockRecord ==
    /\ closeAllModals
    /\ updateStatusBadge("Locked", "badge--locked")
    /\ showToast("success", "Record locked")
    /\ UNCHANGED <<page, role, fields, activityLog, redirect>>
    /\ UNCHANGED uiVars

\* unlockRecord pasted from lockRecord with the badge left as it was there
unlockRecord_pasted ==
    /\ closeAllModals
    /\ updateStatusBadge("Locked", "badge--locked")
    /\ showToast("success", "Record unlocked")
    /\ UNCHANGED <<page, role, fields, activityLog, redirect>>
    /\ UNCHANGED uiVars

unlockRecord ==
    /\ closeAllModals
    /\ updateStatusBadge("Approved", "badge--approved")
    /\ showToast("success", "Record unlocked")
    /\ UNCHANGED <<page, role, fields, activityLog, redirect>>
    /\ UNCHANGED uiVars

\* deleteRecord marking the deletion on the status badge
deleteRecord_marked ==
    /\ closeAllModals
    /\ updateStatusBadge("Deleted", "badge--deleted")
    /\ showToast("success", "Record deleted")
    /\ redirect' = RecordsPage
    /\ UNCHANGED <<page, role, fields, activityLog>>
    /\ UNCHANGED uiVars

deleteRecord ==
    /\ closeAllModals
    /\ showToast("success", "Record deleted")
    /\ redirect' = RecordsPage
    /\ UNCHANGED <<page, status, badgeClass, role, fields, activityLog>>
    /\ UNCHANGED uiVars

archiveRecord ==
    /\ closeAllModals
    /\ updateStatusBadge("Archived", "badge--archived")
    /\ showToast("success", "Record archived")
    /\ UNCHANGED <<page, role, fields, activityLog, redirect>>
    /\ UNCHANGED uiVars

----------------------------------------------------------------------------
(* Tabs *)

\* switchTab with the two loops that deactivate the group left out
switchTab_keeps(tabName, groupId) ==
    /\ IF groupId \notin {NoGroup, PageGroup}
       THEN UNCHANGED <<activeTabs, activeContents>>
       ELSE /\ activeTabs' =
                  activeTabs \cup (IF tabName \in PageTabs THEN {tabName} ELSE {})
            /\ activeContents' =
                  activeContents
                      \cup (IF tabName \in PageTabs THEN {ContentId[tabName]} ELSE {})
    /\ UNCHANGED <<page, status, badgeClass, role, fields, modals, toasts, activityLog, redirect>>
    /\ UNCHANGED <<dropdowns, form, shown>>

\* the group is the document, or the element of id groupId, which holds the
\* tabs and the tab contents of the page; with a groupId the document does
\* not hold, group is null and the call throws before it changes anything
switchTab(tabName, groupId) ==
    /\ IF groupId \notin {NoGroup, PageGroup}
       THEN UNCHANGED <<activeTabs, activeContents>>
       ELSE /\ activeTabs' =
                  (activeTabs \ PageTabs)
                      \cup (IF tabName \in PageTabs THEN {tabName} ELSE {})
            /\ activeContents' =
                  (activeContents \ {ContentId[n] : n \in PageTabs})
                      \cup (IF tabName \in PageTabs THEN {ContentId[tabName]} ELSE {})
    /\ UNCHANGED <<page, status, badgeClass, role, fields, modals, toasts, activityLog, redirect>>
    /\ UNCHANGED <<dropdowns, form, shown>>

----------------------------------------------------------------------------
(* Login form and record form *)

\* the user enters text v into input i
fillInput(i, v) ==
    /\ i \in PageInputs
    /\ v \in InputValues[i]
    /\ form[i] # v
    /\ form' = [form EXCEPT ![i] = v]
    /\ UNCHANGED <<page, status, badgeClass, role, fields, modals, toasts, activityLog, redirect>>
    /\ UNCHANGED <<dropdowns, activeTabs, activeContents, shown>>

validateLoginForm ==
    /\ page = LoginPage
    /\ IF form.username = "" \/ form.password = ""
       THEN /\ shown' = shown \cup {"alert-login-error"}
            /\ UNCHANGED <<toasts, redirect>>
       ELSE /\ shown' = shown \ {"alert-login-error"}
            /\ showToast("success", "Login successful! Redirecting...")
            /\ redirect' = DashboardPage
    /\ UNCHANGED <<page, status, badgeClass, role, fields, modals, activityLog>>
    /\ UNCHANGED <<dropdowns, activeTabs, activeContents, form>>

validateRecordForm ==
    /\ page = RecordFormPage
    /\ IF Blank(form.title)
       THEN /\ shown' = (shown \ (FormErrors \cup {"form-error-summary"}))
                            \cup {"field-error-title", "form-error-summary"}
            /\ UNCHANGED <<toasts, redirect>>
       ELSE /\ shown' = shown \ (FormErrors \cup {"form-error-summary"})
            /\ showToast("success", "Record created successfully!")
            /\ redirect' = RecordDetailPage
    /\ UNCHANGED <<page, status, badgeClass, role, fields, modals, activityLog>>
    /\ UNCHANGED <<dropdowns, activeTabs, activeContents, form>>

----------------------------------------------------------------------------
(* Settings forms *)

saveProfile ==
    /\ page = SettingsPage
    /\ showToast("success", "Profile saved successfully")
    /\ UNCHANGED <<page, status, badgeClass, role, fields, modals, activityLog, redirect>>
    /\ UNCHANGED uiVars

changePassword ==
    /\ page = SettingsPage
    /\ showToast("success", "Password changed successfully")
    /\ UNCHANGED <<page, status, badgeClass, role, fields, modals, activityLog, redirect>>
    /\ UNCHANGED uiVars

----------------------------------------------------------------------------
(* Redirects *)

\* setTimeout(() => { window.location.href = ... }, 1200): the new document
\* is the page as it is loaded, with no modal open, an empty toast container,
\* closed dropdowns, empty inputs and no error displayed
redirectTimer ==
    /\ redirect # NoRedirect
    /\ page' = redirect
    /\ status' = LoadedStatus(redirect)
    /\ badgeClass' = LoadedBadgeClass(redirect)
    /\ fields' = [f \in RequiredFields |-> <<>>]
    /\ modals' = {}
    /\ toasts' = <<>>
    /\ redirect' = NoRedirect
    /\ dropdowns' = {}
    /\ activeTabs' = DefaultTabs(redirect)
    /\ activeContents' = {ContentId[n] : n \in DefaultTabs(redirect)}
    /\ form' = EmptyForm
    /\ shown' = {}
    /\ UNCHANGED <<role, activityLog>>

----------------------------------------------------------------------------
(* Specification *)

\* a handler that shows a toast runs only while the container has room
ToastRoom == Len(toasts) < MaxToasts

Next ==
    \/ \E m \in Modals : openModal(m)
    \/ \E m \in Modals : closeModal(m)
    \/ \E m \in Modals : overlayClick(m)
    \/ keydownEscape
    \/ toastTimer
    \/ \E i \in 1..MaxToasts : toastDismiss(i)
    \/ \E f \in RequiredFields, v \in FieldValues : typeField(f, v)
    \/ ToastRoom /\ submitForReview
    \/ ToastRoom /\ approveRecord
    \/ ToastRoom /\ rejectRecord
    \/ ToastRoom /\ lockRecord
    \/ ToastRoom /\ unlockRecord
    \/ ToastRoom /\ deleteRecord
    \/ ToastRoom /\ archiveRecord
    \/ redirectTimer

Spec == Init /\ [][Next]_vars

\* any page of the application as it is loaded
InitPages ==
    /\ page \in {LoginPage, RecordFormPage, RecordDetailPage, SettingsPage, AdminPage}
    /\ status = LoadedStatus(page)
    /\ badgeClass = LoadedBadgeClass(page)
    /\ role \in Roles
    /\ fields = [f \in RequiredFields |-> <<>>]
    /\ modals = {}
    /\ toasts = <<>>
    /\ activityLog = <<>>
    /\ redirect = NoRedirect
    /\ dropdowns = {}
    /\ activeTabs = DefaultTabs(page)
    /\ activeContents = {ContentId[n] : n \in DefaultTabs(page)}
    /\ form = EmptyForm
    /\ shown = {}

\* the handlers of the pages, the workflow actions left aside
NextPages ==
    \/ \E t \in ClickTargets : click(t)
    \/ \E n \in TabNames, g \in GroupIds : switchTab(n, g)
    \/ \E m \in Modals : openModal(m)
    \/ \E m \in Modals : closeModal(m)
    \/ \E m \in Modals : overlayClick(m)
    \/ keydownEscape
    \/ \E i \in Inputs : \E v \in InputValues[i] : fillInput(i, v)
    \/ validateLoginForm
    \/ ToastRoom /\ validateRecordForm
    \/ ToastRoom /\ saveProfile
    \/ ToastRoom /\ changePassword
    \/ toastTimer
    \/ \E i \in 1..MaxToasts : toastDismiss(i)
    \/ redirectTimer

SpecPages == InitPages /\ [][NextPages]_vars

\* the timer of a toast, once set, runs out
SpecPagesFair == SpecPages /\ WF_vars(toastTimer)

----------------------------------------------------------------------------
(* The transition table of the navigation guide *)

Transitions == {"SubmitForReview", "Approve", "Reject", "Lock", "Unlock", "Archive"}

\* "Transition" / "Applicable status" of each workflow action
From ==
    [t \in Transitions |->
        CASE t = "SubmitForReview" -> {"Draft"}
          [] t = "Approve" -> {"Pending Review"}
          [] t = "Reject" -> {"Pending Review"}
          [] t = "Lock" -> {"Approved"}
          [] t = "Unlock" -> {"Locked"}
          [] t = "Archive" -> {"Approved", "Rejected", "Locked"}]

To ==
    [t \in Transitions |->
        CASE t = "SubmitForReview" -> "Pending Review"
          [] t = "Approve" -> "Approved"
          [] t = "Reject" -> "Rejected"
          [] t = "Lock" -> "Locked"
          [] t = "Unlock" -> "Approved"
          [] t = "Archive" -> "Archived"]

\* "Required role" of each workflow action
RequiredRole ==
    [t \in Transitions |->
        CASE t = "SubmitForReview" -> {"Editor", "Admin"}
          [] t = "Approve" -> {"Reviewer", "Admin"}
          [] t = "Reject" -> {"Reviewer", "Admin"}
          [] t = "Lock" -> {"Admin"}
          [] t = "Unlock" -> {"Admin"}
          [] t = "Archive" -> {"Editor", "Admin"}]

\* the role table with Admin left out of the Lock row
DocumentedRole_noAdmin ==
    [t \in {"Approve", "Reject", "Lock", "Unlock"} |->
        CASE t = "Approve" -> {"Reviewer", "Admin"}
          [] t = "Reject" -> {"Reviewer", "Admin"}
          [] t = "Lock" -> {"Reviewer"}
          [] t = "Unlock" -> {"Admin"}]

\* "Required role" as the navigation guide states it: the guide names a role
\* for Approve, Reject, Lock and Unlock, and none for the other two actions
DocumentedRole ==
    [t \in {"Approve", "Reject", "Lock", "Unlock"} |->
        CASE t = "Approve" -> {"Reviewer", "Admin"}
          [] t = "Reject" -> {"Reviewer", "Admin"}
          [] t = "Lock" -> {"Admin"}
          [] t = "Unlock" -> {"Admin"}]

\* the guide lets role r invoke t: no role is required, or r is a required one
canInvoke(r, t) == t \in DOMAIN DocumentedRole => r \in DocumentedRole[t]

\* the textarea a workflow action requires to be filled in
RequiredInput ==
    [t \in Transitions |->
        CASE t = "Reject" -> {"input-rejection-reason"}
          [] t = "Unlock" -> {"input-unlock-reason"}
          [] OTHER -> {}]

\* the handler the confirm button of each workflow action calls
Handler(t) ==
    CASE t = "SubmitForReview" -> submitForReview
      [] t = "Approve" -> approveRecord
      [] t = "Reject" -> rejectRecord
      [] t = "Lock" -> lockRecord
      [] t = "Unlock" -> unlockRecord
      [] t = "Archive" -> archiveRecord

\* the message each workflow handler passes to showToast
ToastMessage ==
    [t \in Transitions |->
        CASE t = "SubmitForReview" -> "Record submitted for review"
          [] t = "Approve" -> "Record approved"
          [] t = "Reject" -> "Record rejected"
          [] t = "Lock" -> "Record locked"
          [] t = "Unlock" -> "Record unlocked"
          [] t = "Archive" -> "Record archived"]

\* the first guard of the documented chain the current state fails for t
FirstFailingGuard(t) ==
    IF ~HasBadge THEN "NotFound"
    ELSE IF status \notin From[t] THEN "InvalidTransition"
    ELSE IF role \notin RequiredRole[t] THEN "Forbidden"
    ELSE IF \E f \in RequiredInput[t] : Blank(fields[f]) THEN "MissingRequiredInput"
    ELSE "none"

\* what the page reports of the last handler: the message of an error toast
ReportedError ==
    IF toasts = <<>> THEN "none"
    ELSE IF toasts[Len(toasts)].type = "success" THEN "none"
    ELSE toasts[Len(toasts)].message

\* this step has shown a success toast
Succeeded ==
    /\ Len(toasts') = Len(toasts) + 1
    /\ toasts'[Len(toasts')].type = "success"

\* this step has shown the toast of message msg, of whatever type
Announced(msg) ==
    /\ Len(toasts') = Len(toasts) + 1
    /\ \E ty \in ToastTypes : toasts' = Append(toasts, Toast(ty, msg))

TypeOK ==
    /\ page \in Pages
    /\ status \in Statuses \cup {NoBadge}
    /\ role \in Roles
    /\ fields \in [RequiredFields -> FieldValues]
    /\ modals \subseteq Modals
    /\ Len(toasts) <= MaxToasts
    /\ redirect \in Pages \cup {NoRedirect}
    /\ dropdowns \subseteq PageDropdowns
    /\ activeTabs \subseteq PageTabs
    /\ activeContents \subseteq {ContentId[n] : n \in PageTabs}
    /\ \A i \in Inputs : form[i] \in InputValues[i]
    /\ shown \subseteq Indicators

----------------------------------------------------------------------------
(* Claims *)

\* C1: all-or-nothing: a request that fails any guard of the chain (NotFound,
\* InvalidTransition, Forbidden, MissingRequiredInput) leaves the record's
\* status and its audit history as they were before the call.
C1_AllOrNothing ==
    [][\A t \in Transitions :
          (Handler(t) /\ FirstFailingGuard(t) # "none")
              => UNCHANGED <<status, activityLog>>]_vars

\* C2: status guard: a named transition requested on a record whose status is
\* not in the transition's From set fails (no success is reported) and the
\* status does not change.
C2_StatusGuard ==
    [][\A t \in Transitions :
          (Handler(t) /\ HasBadge /\ status \notin From[t])
              => (status' = status /\ ~Succeeded)]_vars

\* C3: role guard: on an existing record whose status is in the From set, a
\* request by a role outside the transition's role set fails, the status is
\* unchanged and no audit entry is appended.
C3_RoleGuard ==
    [][\A t \in Transitions :
          (Handler(t) /\ HasBadge /\ status \in From[t] /\ role \notin RequiredRole[t])
              => (UNCHANGED <<status, activityLog>> /\ ~Succeeded)]_vars

\* C4: Reject with an absent, empty or whitespace-only reason always fails:
\* the record never becomes Rejected through such a request.
C4_RejectNeedsReason ==
    [][(rejectRecord /\ HasBadge /\ Blank(fields["input-rejection-reason"]))
          => (status' = status /\ ~Succeeded)]_vars

\* C5: Reject with a non-blank reason, requested by a Reviewer or an Admin on
\* a Pending Review record, always succeeds and leaves the status Rejected.
C5_RejectSucceeds ==
    [][(/\ Announced("Record rejected")
        /\ status = "Pending Review"
        /\ role \in {"Reviewer", "Admin"}
        /\ ~Blank(fields["input-rejection-reason"]))
          => (status' = "Rejected" /\ badgeClass' = "badge--rejected" /\ Succeeded)]_vars

\* C5 witness: a Reviewer with a reason typed in has rejected the record just
\* after it was submitted for review.
C5_Witness ==
    /\ role = "Reviewer"
    /\ ~Blank(fields["input-rejection-reason"])
    /\ toasts = <<Toast("success", "Record submitted for review"),
                  Toast("success", "Record rejected")>>
    /\ status = "Rejected"

\* C6: Unlock requested without a justification always fails, whatever the
\* role of the actor is.
C6_UnlockNeedsJustification ==
    [][(unlockRecord /\ HasBadge /\ Blank(fields["input-unlock-reason"]))
          => (status' = status /\ ~Succeeded)]_vars

\* C7: guard evaluation order: a request that violates one or several guards
\* is reported with the error of the earliest failing guard of the chain
\* NotFound, InvalidTransition, Forbidden, MissingRequiredInput.
C7_GuardOrder ==
    [][\A t \in Transitions :
          (Handler(t) /\ FirstFailingGuard(t) # "none")
              => ReportedError' = FirstFailingGuard(t)]_vars

\* C8: whatever operations ran, the status shown for a record is one of
\* Draft, Pending Review, Approved, Rejected, Locked, Archived (and a page
\* without a status badge shows none).
C8_StatusInRange ==
    IF HasBadge THEN status \in Statuses ELSE status = NoBadge

\* C8 witness: the record has been archived, the last of the six statuses.
C8_Witness ==
    /\ HasBadge
    /\ status = "Archived"
    /\ toasts # <<>>
    /\ toasts[Len(toasts)] = Toast("success", "Record archived")

\* C10: every successful transition appends exactly one audit entry to the
\* record's history, and the previous history is a prefix of the new one.
C10_OneEntryPerTransition ==
    [][\A t \in Transitions :
          (Handler(t) /\ FirstFailingGuard(t) = "none")
              => /\ Len(activityLog') = Len(activityLog) + 1
                 /\ SubSeq(activityLog', 1, Len(activityLog)) = activityLog]_vars

\* C11: Archived is absorbing: once the status is Archived, every further
\* workflow request on the record, whatever the transition, fails and the
\* status stays Archived.
C11_ArchivedAbsorbing ==
    [][\A t \in Transitions :
          (Handler(t) /\ HasBadge /\ status = "Archived")
              => (status' = "Archived" /\ ~Succeeded)]_vars

\* C12: availableTransitions(record, actor) is exactly the set of
\* transitions whose From set holds the record's status and whose role set
\* holds the actor's role.  (app.js computes no such set: nothing to state.)

\* C13: on success the new status is exactly the To status of the named
\* transition, whatever path led to the current status: Approve and Unlock
\* both give Approved, Lock gives Locked, SubmitForReview gives Pending
\* Review, Reject gives Rejected, Archive gives Archived.
C13_StatusIsTo ==
    [][\A t \in Transitions :
          (Announced(ToastMessage[t]) /\ HasBadge /\ Succeeded)
              => (status' = To[t])]_vars

\* C13 witness: the record was locked and then unlocked, and shows Approved
\* again, the To status of Unlock.
C13_Witness ==
    /\ HasBadge
    /\ toasts = <<Toast("success", "Record locked"),
                  Toast("success", "Record unlocked")>>
    /\ status = To["Unlock"]

\* C14: Archive is applied only from Approved, Rejected or Locked: an Archive
\* request on a Draft or Pending Review record never makes it Archived.
C14_ArchiveOnlyFromTerminal ==
    [][(archiveRecord /\ HasBadge /\ status \in {"Draft", "Pending Review"})
          => status' # "Archived"]_vars

\* C15: a transition whose input is optional never fails for a missing input:
\* SubmitForReview by an Editor on a Draft record succeeds, the status becomes
\* Pending Review and exactly one audit entry is appended.
C15_SubmitWithoutComment ==
    [][(submitForReview /\ HasBadge /\ status = "Draft" /\ role = "Editor")
          => /\ Succeeded
             /\ status' = "Pending Review"
             /\ Len(activityLog') = Len(activityLog) + 1]_vars

\* C16: Lock then Unlock is a round trip: an Admin's Unlock with a non-blank
\* justification, right after the Admin's Lock made the record Locked, gives
\* Approved again, and the history then ends with the Lock entry followed by
\* the Unlock entry.
C16_LockUnlockRoundTrip ==
    [][(/\ unlockRecord
        /\ HasBadge
        /\ role = "Admin"
        /\ status = "Locked"
        /\ toasts # <<>>
        /\ toasts[Len(toasts)] = Toast("success", "Record locked")
        /\ ~Blank(fields["input-unlock-reason"]))
          => /\ status' = "Approved"
             /\ Len(activityLog') >= 2
             /\ activityLog'[Len(activityLog') - 1].transitionName = "Lock"
             /\ activityLog'[Len(activityLog')].transitionName = "Unlock"]_vars

C18_NotFound ==
    [][\A t \in Transitions :
          (Handler(t) /\ ~HasBadge)
              => /\ UNCHANGED <<status, badgeClass, activityLog>>
                 /\ ~Succeeded
                 /\ ReportedError' = "NotFound"]_vars

\* C19: the queries availableTransitions and history have no side effects,
\* and two history calls with no transition between them return the same
\* sequence.  (app.js has neither query: nothing to state.)

\* C20: calls on one record are serialized, so each guard sees the status the
\* previous call left: of an Approve and a Reject issued against a Pending
\* Review record, the one that comes second fails, in either order.
C20_SecondRequestFails ==
    [][/\ (/\ rejectRecord
           /\ HasBadge
           /\ status = "Approved"
           /\ toasts # <<>>
           /\ toasts[Len(toasts)] = Toast("success", "Record approved"))
          => (status' = status /\ ~Succeeded)
       /\ (/\ approveRecord
           /\ HasBadge
           /\ status = "Rejected"
           /\ toasts # <<>>
           /\ toasts[Len(toasts)] = Toast("success", "Record rejected"))
          => (status' = status /\ ~Succeeded)]_vars

\* C21: a transition is applied atomically with its audit entry, also when
\* the store fails with StorageUnavailable while the transition is applied.
\* (app.js has no store a handler writes to and none that can fail: nothing
\* to state.)

\* the outcome of a workflow handler on a page with a status badge, as a
\* function of the transition, the status, the role and the textareas
Outcome(t, st, r, aux) == [kind |-> "success", status |-> To[t]]

\* C22: the handlers are deterministic and keep no hidden state: the outcome
\* of a workflow request (success or error, resulting status) is a function
\* of the transition, the record's status, the role and the input alone,
\* whatever modals, toasts or redirects earlier calls have left.
C22_Deterministic ==
    [][\A t \in Transitions :
          (Announced(ToastMessage[t]) /\ HasBadge)
              => LET o == Outcome(t, status, role, fields)
                 IN  /\ status' = o.status
                     /\ Succeeded <=> o.kind = "success"]_vars

\* C22 witness: Approve was requested twice in a row, the second time with
\* the toast of the first still shown, and gave Approved both times.
C22_Witness ==
    /\ HasBadge
    /\ toasts = <<Toast("success", "Record approved"),
                  Toast("success", "Record approved")>>
    /\ status = Outcome("Approve", "Approved", role, fields).status

\* C23: no workflow action deletes the record: a page that shows the record
\* still shows it, with one of the six statuses, after any workflow handler,
\* and deleteRecord leaves the status badge as it was (deletion is no status).
C23_NoTransitionDeletes ==
    [][/\ \A t \in Transitions :
              (Announced(ToastMessage[t]) /\ HasBadge)
                  => (HasBadge' /\ status' \in Statuses)
       /\ Announced("Record deleted")
              => (page' = page /\ status' = status /\ badgeClass' = badgeClass)]_vars

\* C23 witness: deleteRecord has run on a Locked record, whose badge still
\* shows Locked while the redirect to the records list is pending.
C23_Witness ==
    /\ HasBadge
    /\ status = "Locked"
    /\ toasts # <<>>
    /\ toasts[Len(toasts)] = Toast("success", "Record deleted")
    /\ redirect = RecordsPage

\* C24: record creation is rejected when a required field is missing: a
\* submit of the record form with a blank Title, or with no Type selected,
\* shows the form error summary and the error of the field, shows no success
\* toast and sets no redirect to the record detail page.
C24_RequiredFieldsChecked ==
    [][(validateRecordForm /\ (Blank(form.title) \/ form.type = ""))
          => /\ "form-error-summary" \in shown'
             /\ Blank(form.title) => "field-error-title" \in shown'
             /\ form.type = "" => "field-error-type" \in shown'
             /\ UNCHANGED <<toasts, redirect>>]_vars

\* the valid test credentials of the login page
ValidCredentials == [username |-> "admin", password |-> "admin123"]

\* C25: login redirects to the dashboard only on success: a submit of the
\* login form with credentials other than the valid ones displays the error
\* banner alert-login-error and sets no redirect to dashboard.html.
C25_LoginOnlyWithValidCredentials ==
    [][(/\ validateLoginForm
        /\ ~(/\ form.username = ValidCredentials.username
             /\ form.password = ValidCredentials.password))
          => /\ "alert-login-error" \in shown'
             /\ redirect' # DashboardPage]_vars

\* C26: the lock icon is displayed exactly when the record is Locked,
\* whatever workflow actions have run on the record detail page.
C26_LockIconIffLocked ==
    HasBadge => ("record-lock-icon" \in shown <=> status = "Locked")

\* C27: Escape closes any modal: after the Escape keydown no modal overlay is
\* visible, whichever were open, and a click on the overlay of a modal
\* closes that modal.
C27_EscapeClosesModals ==
    [][/\ keydownEscape => modals' = {}
       /\ \A m \in Modals : overlayClick(m) => m \notin modals']_vars

\* C27 witness: a modal is open, and the Escape key and a click on its
\* overlay can each be taken and leave it closed.
C27_Witness ==
    /\ modals = {"modal-reject"}
    /\ ENABLED (keydownEscape /\ "modal-reject" \notin modals')
    /\ ENABLED (overlayClick("modal-reject") /\ "modal-reject" \notin modals')

C29_TabsExclusive ==
    /\ [][\A n \in TabNames, g \in GroupIds :
             (switchTab(n, g) /\ n \in PageTabs /\ g \in {NoGroup, PageGroup})
                 => /\ activeTabs' = {n}
                    /\ activeContents' = {ContentId[n]}]_vars
    /\ [](Cardinality(activeTabs) <= 1 /\ Cardinality(activeContents) <= 1)

\* C29 witness: on the settings page, where Profile is active when the page
\* loads, Security and its content are the active ones.
C29_Witness ==
    /\ page = SettingsPage
    /\ activeTabs = {"security"}
    /\ activeContents = {ContentId["security"]}

\* C30: a dropdown closes on an outside click: after a click whose target
\* lies outside the wrapper of a dropdown (user menu, notifications panel,
\* actions menu), that dropdown is not visible.
C30_OutsideClickCloses ==
    [][\A t \in ClickTargets, d \in Dropdowns :
          (click(t) /\ Closest[t] # Wrapper[d]) => d \notin dropdowns']_vars

\* C30 witness: the actions menu is open, and a click on the page body can be
\* taken and leaves it closed.
C30_Witness ==
    /\ dropdowns = {"actions-dropdown"}
    /\ ENABLED (click("page-body") /\ "actions-dropdown" \notin dropdowns')

\* C31: status and history stay consistent: the status of the record is the
\* toStatus of the last entry of its audit history, or Draft when the history
\* is empty.
C31_StatusIsLastEntry ==
    HasBadge =>
        status = (IF activityLog = <<>>
                  THEN "Draft"
                  ELSE activityLog[Len(activityLog)].toStatus)

\* C32: every audit entry is a row of the transition table, continues the
\* entry before it, names a role of that row and, for Reject and Unlock,
\* carries a non-blank input.  (app.js appends no entry: nothing to state.)

\* the transitions the transition table offers role r on a record of status st
availableTransitions(st, r) ==
    {t \in Transitions : st \in From[t] /\ r \in RequiredRole[t]}

\* C33: availableTransitions agrees with the workflow requests: a request
\* that succeeds names a transition that was available to the actor just
\* before, and an available transition requested with a non-blank input
\* succeeds.
C33_AvailableAgrees ==
    [][\A t \in Transitions :
          /\ (Handler(t) /\ HasBadge /\ Succeeded)
                 => t \in availableTransitions(status, role)
          /\ (/\ Handler(t)
              /\ HasBadge
              /\ t \in availableTransitions(status, role)
              /\ \A f \in RequiredInput[t] : ~Blank(fields[f]))
                 => (Succeeded /\ status' = To[t])]_vars

\* C34: a Viewer can never change a record: a workflow request of a Viewer,
\* whatever the status and the transition, leaves the status and the history
\* unchanged, and no transition is available to a Viewer.
C34_ViewerChangesNothing ==
    [][\A t \in Transitions :
          (Handler(t) /\ HasBadge /\ role = "Viewer")
              => /\ UNCHANGED <<status, badgeClass, activityLog>>
                 /\ ~Succeeded
                 /\ availableTransitions(status, role) = {}]_vars

\* C35: Draft is never re-entered: a status other than Draft never becomes
\* Draft again while the record is shown, and a Rejected record stays
\* Rejected or becomes Archived.
C35_DraftNeverReentered ==
    [][/\ (HasBadge /\ status' = "Draft") => status = "Draft"
       /\ (status = "Rejected" /\ HasBadge')
              => status' \in {"Rejected", "Archived"}]_vars

C37_OneDropdown == Cardinality(dropdowns) <= 1

\* C37 witness: the notifications panel is open, and a click on the user
\* avatar can be taken and leaves the user menu open alone.
C37_Witness ==
    /\ dropdowns = {"notifications-panel"}
    /\ ENABLED (click("user-avatar-menu") /\ dropdowns' = {"user-dropdown"})

\* the messages of the handlers a modal confirms
ConfirmMessages == {ToastMessage[t] : t \in Transitions} \cup {"Record deleted"}

\* C38: a workflow action closes its modal: after submitForReview,
\* approveRecord, rejectRecord, lockRecord, unlockRecord, archiveRecord or
\* deleteRecord no modal overlay is visible; and a modal closed without a
\* confirmation (Cancel, close button, Escape, overlay click) changes neither
\* the status nor the history.
C38_ModalsClosed ==
    [][/\ \A msg \in ConfirmMessages : Announced(msg) => modals' = {}
       /\ (modals' # modals /\ modals' \subseteq modals /\ toasts' = toasts /\ page' = page)
              => UNCHANGED <<status, badgeClass, activityLog>>]_vars

\* C38 witness: the Lock modal is open on an Approved record: lockRecord can
\* be taken and closes it, and closing it by its button, by Escape or by a
\* click on its overlay can be taken and leaves the status Approved.
C38_Witness ==
    /\ modals = {"modal-lock"}
    /\ status = "Approved"
    /\ Len(toasts) < MaxToasts
    /\ ENABLED (lockRecord /\ modals' = {})
    /\ ENABLED (closeModal("modal-lock") /\ status' = "Approved")
    /\ ENABLED (keydownEscape /\ status' = "Approved")
    /\ ENABLED (overlayClick("modal-lock") /\ status' = "Approved")

====
